---- MODULE Spec2Model ----
(***************************************************************************)
(* PhotonUtils (src/photonutils/__init__.py): six classmethods that turn   *)
(* camera measurements into distances, translations and poses.             *)
(*                                                                         *)
(* One call is modelled: Init draws the operation and its positional       *)
(* arguments, the operation's action evaluates the method as Python does   *)
(* (descriptor binding of the class, attribute lookup, float division) and *)
(* stores the outcome, a returned value or the exception raised.           *)
(*                                                                         *)
(* Numbers.  Heights, distances and coordinates are integers.  Pitches are *)
(* multiples of 15 degrees and math.tan is a table in thousandths.  A      *)
(* Rotation2d is a number of quarter turns, a Rotation3d an integer        *)
(* rotation matrix, so the geometry is exact.  A float result is a reduced *)
(* fraction num/den.                                                       *)
(***************************************************************************)
EXTENDS Integers, Sequences, FiniteSets, TLC

VARIABLES op, args, pc, result

vars == <<op, args, pc, result>>

\* ------------------------------------------------------------------ bounds

\* heights are 0..MaxHeight
MaxHeight == 2
\* each pitch is -MaxPitch..MaxPitch steps of 15 degrees
MaxPitch == 4
\* target distances are -1..MaxDist
MaxDist == 5
\* 2D coordinates are 0..MaxCoord
MaxCoord == 1
\* 3D coordinates are 0..MaxCoord3
MaxCoord3 == 1

\* ------------------------------------------------------------ outcomes

Ok(v) == [status |-> "ok", value |-> v]

Err(e) == [status |-> e, value |-> "none"]

None == [status |-> "pending", value |-> "none"]

\* ------------------------------------------------------------ arithmetic

Abs(n) == IF n < 0 THEN -n ELSE n

Sign(n) == IF n < 0 THEN -1 ELSE IF n > 0 THEN 1 ELSE 0

RECURSIVE Gcd(_, _)
Gcd(a, b) == IF b = 0 THEN a ELSE Gcd(b, a % b)

\* a float: the fraction n/d in lowest terms, d > 0
Float(n, d) ==
    LET g == Gcd(Abs(n), Abs(d))
    IN  [cls |-> "float", num |-> Sign(d) * (n \div g), den |-> Abs(d) \div g]

\* thousandths
TanScale == 1000

\* math.tan of k steps of 15 degrees, in thousandths, for 0 <= k < 12.  The double
\* nearest pi/2 is below pi/2 and its tangent (1.6e16) is finite: the largest entry.
TanTable == <<268, 577, 1000, 1732, 3732, 500000, -3732, -1732, -1000, -577, -268>>

\* tan is odd; the table has period 180 degrees
Tan(k) ==
    IF k < 0 THEN -(IF (-k) % 12 = 0 THEN 0 ELSE TanTable[(-k) % 12])
    ELSE IF k % 12 = 0 THEN 0 ELSE TanTable[k % 12]

\* IEEE division instead of Python's: a zero divisor gives an infinity or a nan
TrueDivIEEE(n, d) ==
    IF d = 0 THEN Ok([cls |-> "float", num |-> Sign(n), den |-> 0]) ELSE Ok(Float(n, d))

\* Python's float true division: a zero divisor raises ZeroDivisionError
TrueDiv(n, d) == IF d = 0 THEN Err("ZeroDivisionError") ELSE Ok(Float(n, d))

\* ------------------------------------------------- wpimath.geometry, 2D

\* the attributes the code looks up, by class of the object
Attrs(c) ==
    CASE c = "Rotation2d"    -> {"cos", "sin", "__neg__", "__sub__", "rotateBy"}
      [] c = "Translation2d" -> {"X", "Y", "angle", "norm", "rotateBy", "__neg__"}
      [] c = "Transform2d"   -> {"translation", "rotation", "inverse"}
      [] c = "Pose2d"        -> {"translation", "rotation", "transformBy"}
      [] c = "Transform3d"   -> {"translation", "rotation", "inverse", "__add__"}
      [] c = "Pose3d"        -> {"translation", "rotation", "transformBy", "__add__"}
      [] c = "type"          -> {"calculateDisanceToTargetMeters",
                                 "estimateCameraToTargetTranslation",
                                 "estimateFieldToRobot", "estimateFieldToCamera",
                                 "estimateCameraToTarget",
                                 "estimateFieldToRobotAprilTag"}
      [] OTHER               -> {}

HasAttr(obj, name) == name \in Attrs(obj.cls)

\* quarter turns, kept in (-180, 180] degrees
NormQ(q) == ((q + 1) % 4) - 1

Rotation2d(q) == [cls |-> "Rotation2d", q |-> NormQ(q)]

Cos(r) == CASE r.q = 0 -> 1 [] r.q = 1 -> 0 [] r.q = 2 -> -1 [] r.q = -1 -> 0

Sin(r) == CASE r.q = 0 -> 0 [] r.q = 1 -> 1 [] r.q = 2 -> 0 [] r.q = -1 -> -1

RotNeg(r) == Rotation2d(-r.q)

RotPlus(a, b) == Rotation2d(a.q + b.q)

RotMinus(a, b) == RotPlus(a, RotNeg(b))

Translation2d(x, y) == [cls |-> "Translation2d", x |-> x, y |-> y]

TrNeg(t) == Translation2d(-t.x, -t.y)

TrPlus(a, b) == Translation2d(a.x + b.x, a.y + b.y)

TrRotateBy(t, r) ==
    Translation2d(t.x * Cos(r) - t.y * Sin(r), t.x * Sin(r) + t.y * Cos(r))

Transform2d(t, r) == [cls |-> "Transform2d", t |-> t, r |-> r]

Pose2d(t, r) == [cls |-> "Pose2d", t |-> t, r |-> r]

\* Transform2d.inverse()
Inverse(tf) == Transform2d(TrRotateBy(TrNeg(tf.t), RotNeg(tf.r)), RotNeg(tf.r))

\* Pose2d.transformBy(other)
TransformBy(p, tf) == Pose2d(TrPlus(p.t, TrRotateBy(tf.t, p.r)), RotPlus(tf.r, p.r))

\* ------------------------------------------------- wpimath.geometry, 3D

\* a rotation matrix: three rows of three integers
Row(m, i, v) == m[i][1] * v[1] + m[i][2] * v[2] + m[i][3] * v[3]

MatVec(m, v) == <<Row(m, 1, v), Row(m, 2, v), Row(m, 3, v)>>

Col(m, j) == <<m[1][j], m[2][j], m[3][j]>>

Transpose(m) == <<Col(m, 1), Col(m, 2), Col(m, 3)>>

MatMul(a, b) == Transpose(<<MatVec(a, Col(b, 1)), MatVec(a, Col(b, 2)), MatVec(a, Col(b, 3))>>)

Rotation3d(m) == [cls |-> "Rotation3d", m |-> m]

Translation3d(v) == [cls |-> "Translation3d", v |-> v]

Transform3d(t, r) == [cls |-> "Transform3d", t |-> t, r |-> r]

Pose3d(t, r) == [cls |-> "Pose3d", t |-> t, r |-> r]

\* -rotation: the inverse rotation
Rot3Neg(r) == Rotation3d(Transpose(r.m))

\* a.rotateBy(b): a, then b in the fixed frame
Rot3RotateBy(a, b) == Rotation3d(MatMul(b.m, a.m))

Tr3Neg(t) == Translation3d(<<-t.v[1], -t.v[2], -t.v[3]>>)

Tr3Plus(a, b) == Translation3d(<<a.v[1] + b.v[1], a.v[2] + b.v[2], a.v[3] + b.v[3]>>)

Tr3RotateBy(t, r) == Translation3d(MatVec(r.m, t.v))

\* Transform3d.inverse()
Inverse3(tf) == Transform3d(Tr3RotateBy(Tr3Neg(tf.t), Rot3Neg(tf.r)), Rot3Neg(tf.r))

\* Pose3d.transformBy(other), which is Pose3d + Transform3d
TransformBy3(p, tf) ==
    Pose3d(Tr3Plus(p.t, Tr3RotateBy(tf.t, p.r)), Rot3RotateBy(tf.r, p.r))

IdentityMatrix == <<(<<1, 0, 0>>), (<<0, 1, 0>>), (<<0, 0, 1>>)>>

\* a quarter turn about x
RotX == <<(<<1, 0, 0>>), (<<0, 0, -1>>), (<<0, 1, 0>>)>>

\* a quarter turn about z
RotZ == <<(<<0, -1, 0>>), (<<1, 0, 0>>), (<<0, 0, 1>>)>>

Identity3d == Transform3d(Translation3d(<<0, 0, 0>>), Rotation3d(IdentityMatrix))

\* ---------------------------------------------------------- PhotonUtils

PhotonUtils == [cls |-> "type", name |-> "PhotonUtils"]

\* a classmethod called on the class: the class is bound as the first positional
\* argument, before the caller's
Bind(explicit) == <<PhotonUtils>> \o explicit

\* the height differential reversed
calculateDisanceSwappedHeights(cameraHeightMeters, targetHeightMeters, cameraPitchRadians, targetPitchRadians) ==
    TrueDiv((cameraHeightMeters - targetHeightMeters) * TanScale,
            Tan(cameraPitchRadians + targetPitchRadians))

\* the target pitch subtracted from the camera pitch
calculateDisancePitchDifference(cameraHeightMeters, targetHeightMeters, cameraPitchRadians, targetPitchRadians) ==
    TrueDiv((targetHeightMeters - cameraHeightMeters) * TanScale,
            Tan(cameraPitchRadians - targetPitchRadians))

calculateDisanceToTargetMeters(cameraHeightMeters, targetHeightMeters, cameraPitchRadians, targetPitchRadians) ==
    TrueDiv((targetHeightMeters - cameraHeightMeters) * TanScale,
            Tan(cameraPitchRadians + targetPitchRadians))

\* the code of estimateFieldToCamera, on its two declared parameters
estimateFieldToCameraBody(cameraToTarget, fieldToTarget) ==
    IF ~HasAttr(fieldToTarget, "transformBy") THEN Err("AttributeError")
    ELSE IF ~HasAttr(cameraToTarget, "inverse") THEN Err("AttributeError")
    ELSE Ok(TransformBy(fieldToTarget, Inverse(cameraToTarget)))

\* the parameters estimateFieldToCamera declares: it is a classmethod without cls
estimateFieldToCameraParams == <<"cameraToTarget", "fieldToTarget">>

\* estimateFieldToCamera called on the class with the positional arguments explicit
estimateFieldToCamera(explicit) ==
    LET actual == Bind(explicit)
    IN  IF Len(actual) # Len(estimateFieldToCameraParams) THEN Err("TypeError")
        ELSE estimateFieldToCameraBody(actual[1], actual[2])

estimateFieldToRobot(cameraToTarget, fieldToTarget, cameraToRobot) ==
    LET fieldToCamera == estimateFieldToCamera(<<cameraToTarget, fieldToTarget>>)
    IN  IF fieldToCamera.status # "ok" THEN fieldToCamera
        ELSE IF ~HasAttr(fieldToCamera.value, "transformBy") THEN Err("AttributeError")
        ELSE Ok(TransformBy(fieldToCamera.value, cameraToRobot))

\* sine on x, cosine on y
estimateCameraToTargetTranslationSwapped(targetDistanceMeters, yaw) ==
    Ok(Translation2d(Sin(yaw) * targetDistanceMeters, Cos(yaw) * targetDistanceMeters))

estimateCameraToTargetTranslation(targetDistanceMeters, yaw) ==
    Ok(Translation2d(Cos(yaw) * targetDistanceMeters, Sin(yaw) * targetDistanceMeters))

\* -gyroAngle is evaluated first, then the lookup of getRotation on fieldToTarget
estimateCameraToTarget(cameraToTargetTranslation, fieldToTarget, gyroAngle) ==
    IF ~HasAttr(fieldToTarget, "getRotation") THEN Err("AttributeError")
    ELSE Ok(Transform2d(cameraToTargetTranslation,
                        RotMinus(RotNeg(gyroAngle), fieldToTarget.r)))

\* cameraToRobot composed before the inverse of cameraToTarget
estimateFieldToRobotAprilTagReordered(cameraToTarget, fieldRelativeTagPose, cameraToRobot) ==
    Ok(TransformBy3(TransformBy3(fieldRelativeTagPose, cameraToRobot),
                    Inverse3(cameraToTarget)))

\* fieldRelativeTagPose + cameraToTarget.inverse() + cameraToRobot, left to right
estimateFieldToRobotAprilTag(cameraToTarget, fieldRelativeTagPose, cameraToRobot) ==
    IF ~HasAttr(cameraToTarget, "inverse") THEN Err("AttributeError")
    ELSE IF ~HasAttr(fieldRelativeTagPose, "__add__") THEN Err("TypeError")
    ELSE Ok(TransformBy3(TransformBy3(fieldRelativeTagPose, Inverse3(cameraToTarget)),
                         cameraToRobot))

\* ------------------------------------------------------------- inputs

Coords3 == 0 .. MaxCoord3

Rotation3ds == {Rotation3d(m) : m \in {IdentityMatrix, RotX, RotZ}}

Translation3ds == {Translation3d(<<x, y, z>>) : x \in Coords3, y \in Coords3, z \in Coords3}

Transform3ds == {Transform3d(t, r) : t \in Translation3ds, r \in Rotation3ds}

Pose3ds == {Pose3d(t, r) : t \in Translation3ds, r \in Rotation3ds}

Coords == 0 .. MaxCoord

Rotation2ds == {Rotation2d(q) : q \in 0 .. 3}

Translation2ds == {Translation2d(x, y) : x \in Coords, y \in Coords}

Transform2ds == {Transform2d(t, r) : t \in Translation2ds, r \in Rotation2ds}

Pose2ds == {Pose2d(t, r) : t \in Translation2ds, r \in Rotation2ds}

Distances == (-1) .. MaxDist

Heights == 0 .. MaxHeight

Pitches == (-MaxPitch) .. MaxPitch

DistanceArgs == Heights \X Heights \X Pitches \X Pitches

ArgsOf(o) ==
    CASE o = "calculateDisanceToTargetMeters" -> DistanceArgs
      [] o = "estimateCameraToTargetTranslation" -> Distances \X Rotation2ds
      [] o = "estimateFieldToRobot" -> Transform2ds \X Pose2ds \X Transform2ds
      [] o = "estimateFieldToCamera" ->
            (Transform2ds \X Pose2ds) \cup {<<p>> : p \in Pose2ds}
      [] o = "estimateCameraToTarget" ->
            Translation2ds \X (Translation2ds \cup Pose2ds) \X Rotation2ds
      [] o = "estimateFieldToRobotAprilTag" -> Transform3ds \X Pose3ds \X Transform3ds

Ops == {"calculateDisanceToTargetMeters", "estimateCameraToTargetTranslation",
        "estimateFieldToRobot", "estimateFieldToCamera", "estimateCameraToTarget",
        "estimateFieldToRobotAprilTag"}

\* ------------------------------------------------------------- the call

Init ==
    /\ op \in Ops
    /\ args \in ArgsOf(op)
    /\ pc = "ready"
    /\ result = None

Return(o, r) ==
    /\ pc = "ready"
    /\ op = o
    /\ result' = r
    /\ pc' = "done"
    /\ UNCHANGED <<op, args>>

Call_calculateDisanceToTargetMeters ==
    Return("calculateDisanceToTargetMeters",
           calculateDisanceToTargetMeters(args[1], args[2], args[3], args[4]))

Call_estimateCameraToTargetTranslation ==
    Return("estimateCameraToTargetTranslation",
           estimateCameraToTargetTranslation(args[1], args[2]))

Call_estimateFieldToRobot ==
    Return("estimateFieldToRobot", estimateFieldToRobot(args[1], args[2], args[3]))

Call_estimateFieldToCamera ==
    Return("estimateFieldToCamera", estimateFieldToCamera(args))

Call_estimateCameraToTarget ==
    Return("estimateCameraToTarget", estimateCameraToTarget(args[1], args[2], args[3]))

Call_estimateFieldToRobotAprilTag ==
    Return("estimateFieldToRobotAprilTag",
           estimateFieldToRobotAprilTag(args[1], args[2], args[3]))

Next ==
    \/ Call_calculateDisanceToTargetMeters
    \/ Call_estimateCameraToTargetTranslation
    \/ Call_estimateFieldToRobot
    \/ Call_estimateFieldToCamera
    \/ Call_estimateCameraToTarget
    \/ Call_estimateFieldToRobotAprilTag

Spec == Init /\ [][Next]_vars

\* ------------------------------------------------------------- properties

Returned(o) == pc = "done" /\ op = o

\* C1: estimateFieldToRobot(T, P, R) returns estimateFieldToCamera(T, P) transformed
\* by R, the pose P * inverse(T) * R, and the call does not end in an error.
C1_FieldToRobotComposes ==
    Returned("estimateFieldToRobot") =>
        /\ result.status = "ok"
        /\ result.value = TransformBy(TransformBy(args[2], Inverse(args[1])), args[3])

\* C2: estimateFieldToCamera(T, P), called on the class with these two arguments,
\* returns P.transformBy(T.inverse()).
C2_FieldToCameraIsInverseComposition ==
    (Returned("estimateFieldToCamera") /\ Len(args) = 2) =>
        /\ result.status = "ok"
        /\ result.value = TransformBy(args[2], Inverse(args[1]))

\* C3: estimateCameraToTarget(t, f, g) with f a Translation2d returns a Transform2d
\* whose translation is t, and the call does not end in an error.
C3_CameraToTargetReturnsTransform ==
    (Returned("estimateCameraToTarget") /\ args[2].cls = "Translation2d") =>
        /\ result.status = "ok"
        /\ result.value.cls = "Transform2d"
        /\ result.value.t = args[1]

\* C4: where the quotient is defined the distance r satisfies
\* r * tan(cameraPitch + targetPitch) = targetHeight - cameraHeight, and heights 0 and 1
\* with pitches 0 and 45 degrees give 1.
C4_DistanceFormula ==
    Returned("calculateDisanceToTargetMeters") =>
        LET t == Tan(args[3] + args[4])
        IN  /\ t # 0 =>
                /\ result.status = "ok"
                /\ result.value.den > 0
                /\ result.value.num * t = result.value.den * (args[2] - args[1]) * TanScale
            /\ args = <<0, 1, 0, 3>> =>
                /\ result.status = "ok"
                /\ result.value.num = 1
                /\ result.value.den = 1

C4_Witness ==
    /\ Returned("calculateDisanceToTargetMeters")
    /\ args = <<0, 1, 0, 3>>
    /\ result = Ok(Float(1, 1))

\* C5: with the combined pitch strictly between 0 and 90 degrees and the heights
\* different, the distance is finite, not zero and has the sign of
\* targetHeight - cameraHeight.
C5_DistanceSign ==
    (/\ Returned("calculateDisanceToTargetMeters")
     /\ args[3] + args[4] > 0
     /\ args[3] + args[4] < 6
     /\ args[2] # args[1]) =>
        /\ result.status = "ok"
        /\ result.value.den > 0
        /\ result.value.num # 0
        /\ Sign(result.value.num) = Sign(args[2] - args[1])

C5_Witness ==
    /\ Returned("calculateDisanceToTargetMeters")
    /\ args[3] + args[4] > 0
    /\ args[3] + args[4] < 6
    /\ args[2] < args[1]
    /\ result.status = "ok"
    /\ result.value.num < 0

\* C6: estimateCameraToTargetTranslation(d, y) is (d cos y, d sin y): (d, 0) at 0
\* degrees, (0, d) at 90, (-d, 0) at 180 and (0, -d) at -90; d = 5 gives (5, 0) and
\* (0, 5).
C6_TranslationFromYaw ==
    Returned("estimateCameraToTargetTranslation") =>
        LET d == args[1]
            q == args[2].q
        IN  /\ result.status = "ok"
            /\ q = 0 => result.value = Translation2d(d, 0)
            /\ q = 1 => result.value = Translation2d(0, d)
            /\ q = 2 => result.value = Translation2d(-d, 0)
            /\ q = -1 => result.value = Translation2d(0, -d)
            /\ (d = 5 /\ q = 0) => (result.value.x = 5 /\ result.value.y = 0)
            /\ (d = 5 /\ q = 1) => (result.value.x = 0 /\ result.value.y = 5)

C6_Witness ==
    /\ Returned("estimateCameraToTargetTranslation")
    /\ args[1] = 5
    /\ args[2] = Rotation2d(1)
    /\ result = Ok(Translation2d(0, 5))

\* C7: the pose estimateFieldToCamera(T, P) returns, transformed by T again, is P.
C7_RoundTrip ==
    (Returned("estimateFieldToCamera") /\ Len(args) = 2) =>
        /\ result.status = "ok"
        /\ TransformBy(result.value, args[1]) = args[2]

\* C8: estimateFieldToRobotAprilTag returns fieldRelativeTagPose composed with
\* inverse(cameraToTarget) and then with cameraToRobot: undoing cameraToRobot and then
\* redoing cameraToTarget gives the tag pose back, and two identity transforms return
\* the tag pose itself.
C8_AprilTagComposition ==
    Returned("estimateFieldToRobotAprilTag") =>
        /\ result.status = "ok"
        /\ result.value = TransformBy3(TransformBy3(args[2], Inverse3(args[1])), args[3])
        /\ TransformBy3(TransformBy3(result.value, Inverse3(args[3])), args[1]) = args[2]
        /\ (args[1] = Identity3d /\ args[3] = Identity3d) => result.value = args[2]

C8_Witness ==
    /\ Returned("estimateFieldToRobotAprilTag")
    /\ result.status = "ok"
    /\ args[1] # Identity3d
    /\ args[3] # Identity3d
    /\ args[2].r.m = RotX
    /\ result.value # TransformBy3(TransformBy3(args[2], args[3]), Inverse3(args[1]))

\* C10 as stated: calculateDisanceToTargetMeters never raises, it returns a float for
\* every input, a combined pitch of 0 included.
C10_NeverRaises ==
    Returned("calculateDisanceToTargetMeters") => result.status = "ok"

\* C10 as amended: nothing is validated; a combined pitch of 0 (tangent exactly zero)
\* raises ZeroDivisionError whatever the heights, no other error is raised, and equal
\* heights with a tangent that is not zero give 0.
C10_ZeroTangentRaises ==
    Returned("calculateDisanceToTargetMeters") =>
        LET t == Tan(args[3] + args[4])
        IN  /\ args[3] + args[4] = 0 => result.status = "ZeroDivisionError"
            /\ result.status # "ok" => (result.status = "ZeroDivisionError" /\ t = 0)
            /\ (t # 0 /\ args[1] = args[2]) =>
                    (result.status = "ok" /\ result.value.num = 0)

C10_Witness ==
    /\ Returned("calculateDisanceToTargetMeters")
    /\ args[3] + args[4] = 0
    /\ args[3] # 0
    /\ args[1] # args[2]
    /\ result.status = "ZeroDivisionError"

====
